---- MODULE Spec2Model ----
(***************************************************************************)
(* fumadocs-pdf-export: the route handler built by createPdfExportHandler  *)
(* (src/src/route-handler.ts), its page helpers, and ExportButton          *)
(* (src/unnamed/part_000).                                                 *)
(*                                                                         *)
(* JavaScript strings that the code inspects character by character are    *)
(* sequences of one-character strings; opaque strings are TLA+ strings.    *)
(* A value that may be null/undefined is a set holding at most one value.  *)
(***************************************************************************)
EXTENDS Integers, Sequences, FiniteSets, TLC

VARIABLES
  config,        \* the handler closure's resolved configuration
  path,          \* per request: searchParams.get('path'), {} for null
  cookieHeader,  \* per request: request.headers.get('cookie') || ''
  pc,            \* per request: the statement of handler() it is suspended at
  browser,       \* per invocation: the local `let browser`, {} while undefined
  sessions,      \* every browser puppeteer.launch() has created, by identity
  calls,         \* per request: the awaited calls it has made, in order
  error,         \* per request: what the catch clause caught, {} if nothing
  response,      \* per request: what handler() produced
  cookieIn,      \* parseCookies alone: its arguments
  cookieOut,     \* parseCookies alone: {} before the call, then the array returned
  accPage,       \* expandAccordions: the page's disclosure widgets, as built
  accOpen,       \* expandAccordions: which widgets are open now
  accSelectors,  \* expandAccordions: its `selectors` argument
  accRun,        \* expandAccordions: which invocation on this page is running
  accI,          \* expandAccordions: the loop variable i
  accPc,         \* expandAccordions: the await it is suspended at
  accRounds,     \* expandAccordions: what each page.evaluate round did
  fnPath,        \* download name: window.location.pathname of the page exported
  fnProp,        \* download name: the button's `filename` prop, {} if not given
  fnQuery,       \* download name: the path parameter as sent in the URL, {} before
  fnResponse,    \* download name: the handler's answer, {} before it
  fnDownload,    \* download name: a.download of the button, {} before it is set
  domPage,       \* cleanupPageForPdf: the document as loaded (tree, element kinds)
  domLive,       \* cleanupPageForPdf: the elements now in the document
  domBody,       \* cleanupPageForPdf: the children of document.body
  domPosition,   \* cleanupPageForPdf: each element's computed position
  domOverflow,   \* cleanupPageForPdf: each element's computed overflow
  domPc,         \* cleanupPageForPdf: "loaded" before the call, "cleaned" after
  lzLoaded,      \* triggerLazyImages: the images as the page holds them at the call
  lzImages,      \* triggerLazyImages: the images now (complete, naturalHeight, loading)
  lzPending,     \* triggerLazyImages: the images whose promise is not yet settled
  lzSignal,      \* triggerLazyImages: the event each awaited image has fired
  lzPc,          \* triggerLazyImages: where the call stands
  cfgDefaults,   \* configuration: the module-level object defaultOptions
  cfgArgument,   \* configuration: per handler, what createPdfExportHandler was given
  cfgResolved,   \* configuration: per handler, the closure's resolvedOptions
  cfgConfig,     \* configuration: per handler, the closure's config, {} before it is built
  cfgHandler,    \* configuration: per request, the handler it was sent to, 0 before
  cfgPc,         \* configuration: per request, how far handler() has read its closure
  cfgSeen,       \* configuration: per request, every configuration a read of it found
  msPage,        \* height: per rendering, the page as cleanupPageForPdf left it
  msWidth,       \* height: config.pageWidth
  msHeight,      \* height: per rendering, contentHeight, {} before it is measured
  msPdf,         \* height: per rendering, the options page.pdf() was given, {} before
  msPc,          \* height: per rendering, the await handler() is suspended at
  btnProps,      \* ExportButton: its props (disabled, the callbacks, which component)
  btnLoading,    \* ExportButton: the state isLoading
  btnOuter,      \* FumadocsExportButton: its own state isLoading
  btnPc,         \* ExportButton: the await handleExport is suspended at, "idle" if none
  btnResponse,   \* ExportButton: what fetch resolved with, "none" before
  btnExports,    \* ExportButton: per export started, the calls it has made
  btnClicks,     \* ExportButton: how many clicks the button has had
  btnUncaught    \* ExportButton: an exception has escaped handleExport

handlerVars == <<config, path, cookieHeader, pc, browser, sessions, calls, error, response>>

cookieVars == <<cookieIn, cookieOut>>

accVars == <<accPage, accOpen, accSelectors, accRun, accI, accPc, accRounds>>

fnVars == <<fnPath, fnProp, fnQuery, fnResponse, fnDownload>>

domVars == <<domPage, domLive, domBody, domPosition, domOverflow, domPc>>

lzVars == <<lzLoaded, lzImages, lzPending, lzSignal, lzPc>>

cfgVars == <<cfgDefaults, cfgArgument, cfgResolved, cfgConfig, cfgHandler, cfgPc, cfgSeen>>

msVars == <<msPage, msWidth, msHeight, msPdf, msPc>>

btnVars ==
  <<btnProps, btnLoading, btnOuter, btnPc, btnResponse, btnExports, btnClicks, btnUncaught>>

vars == <<handlerVars, cookieVars, accVars, fnVars, domVars, lzVars, cfgVars, msVars, btnVars>>

\* what an action of one part of the program leaves alone
notHandlerVars == <<cookieVars, accVars, fnVars, domVars, lzVars, cfgVars, msVars, btnVars>>

notCookieVars == <<handlerVars, accVars, fnVars, domVars, lzVars, cfgVars, msVars, btnVars>>

notAccVars == <<handlerVars, cookieVars, fnVars, domVars, lzVars, cfgVars, msVars, btnVars>>

notFnVars == <<handlerVars, cookieVars, accVars, domVars, lzVars, cfgVars, msVars, btnVars>>

notDomVars == <<handlerVars, cookieVars, accVars, fnVars, lzVars, cfgVars, msVars, btnVars>>

notLzVars == <<handlerVars, cookieVars, accVars, fnVars, domVars, cfgVars, msVars, btnVars>>

notCfgVars == <<handlerVars, cookieVars, accVars, fnVars, domVars, lzVars, msVars, btnVars>>

notMsVars == <<handlerVars, cookieVars, accVars, fnVars, domVars, lzVars, cfgVars, btnVars>>

notBtnVars == <<handlerVars, cookieVars, accVars, fnVars, domVars, lzVars, cfgVars, msVars>>

(***************************************************************************)
(* String primitives of the JavaScript runtime, on character sequences.    *)
(***************************************************************************)

\* String.prototype.includes for a single character
Includes(s, ch) == \E i \in 1..Len(s) : s[i] = ch

\* String.prototype.startsWith
StartsWith(s, prefix) ==
  /\ Len(prefix) <= Len(s)
  /\ \A i \in 1..Len(prefix) : s[i] = prefix[i]

\* index of the first occurrence of ch in s, 0 when there is none
IndexOf(s, ch) ==
  IF Includes(s, ch) THEN CHOOSE i \in 1..Len(s) : s[i] = ch /\ \A j \in 1..(i-1) : s[j] # ch
  ELSE 0

\* String.prototype.split on a single character: always at least one part
RECURSIVE Split(_, _)
Split(s, sep) ==
  LET i == IndexOf(s, sep) IN
  IF i = 0 THEN <<s>>
  ELSE <<SubSeq(s, 1, i-1)>> \o Split(SubSeq(s, i+1, Len(s)), sep)

\* Array.prototype.join with a single-character separator
RECURSIVE Join(_, _)
Join(parts, sep) ==
  IF Len(parts) = 0 THEN <<>>
  ELSE IF Len(parts) = 1 THEN parts[1]
  ELSE parts[1] \o <<sep>> \o Join(Tail(parts), sep)

IsSpace(ch) == ch = " "

\* String.prototype.trim
RECURSIVE TrimStart(_)
TrimStart(s) == IF Len(s) > 0 /\ IsSpace(s[1]) THEN TrimStart(Tail(s)) ELSE s

RECURSIVE TrimEnd(_)
TrimEnd(s) ==
  IF Len(s) > 0 /\ IsSpace(s[Len(s)]) THEN TrimEnd(SubSeq(s, 1, Len(s)-1)) ELSE s

Trim(s) == TrimEnd(TrimStart(s))

\* mutant of ReplaceEvery: the regular expression without its g flag
ReplaceFirstOnly(s, from, to) ==
  [i \in 1..Len(s) |-> IF s[i] = from /\ (\A j \in 1..(i - 1) : s[j] # from) THEN to ELSE s[i]]

\* s.replace(/\//g, '-'): every occurrence replaced
ReplaceEvery(s, from, to) == [i \in 1..Len(s) |-> IF s[i] = from THEN to ELSE s[i]]

\* s.replace(/^-/, ''): one leading occurrence removed
StripLeading(s, ch) == IF Len(s) > 0 /\ s[1] = ch THEN Tail(s) ELSE s

\* the one value of a nullable that is not null
The(opt) == CHOOSE v \in opt : TRUE


(***************************************************************************)
(* parseCookies (route-handler.ts 172-222).  A cookie record's optional    *)
(* fields url and domain are nullable: {} when the object has no such key. *)
(***************************************************************************)

HostPrefix == <<"_", "_", "H", "o", "s", "t", "-">>

SecurePrefix == <<"_", "_", "S", "e", "c", "u", "r", "e", "-">>

\* mutant of ParseCookie: the __Secure- branch is missing
ParseCookieNoSecureRule(cookie, domain, isSecure, baseUrl) ==
  LET trimmed == Trim(cookie)
      parts == Split(trimmed, "=")
      cookieName == Trim(parts[1])
      cookieValue == Join(Tail(parts), "=")
  IN
  IF trimmed = <<>> \/ ~Includes(trimmed, "=") THEN {}
  ELSE IF cookieName = <<>> THEN {}
  ELSE IF StartsWith(cookieName, HostPrefix) THEN
    {[name |-> cookieName, value |-> cookieValue, url |-> {baseUrl}, domain |-> {},
      path |-> "/", secure |-> TRUE]}
  ELSE
    {[name |-> cookieName, value |-> cookieValue, url |-> {}, domain |-> {domain},
      path |-> "/", secure |-> isSecure]}

\* the callback of .map(): {} for null, otherwise the one record
ParseCookie(cookie, domain, isSecure, baseUrl) ==
  LET trimmed == Trim(cookie)
      parts == Split(trimmed, "=")
      cookieName == Trim(parts[1])
      cookieValue == Join(Tail(parts), "=")
  IN
  IF trimmed = <<>> \/ ~Includes(trimmed, "=") THEN {}
  ELSE IF cookieName = <<>> THEN {}
  ELSE IF StartsWith(cookieName, HostPrefix) THEN
    {[name |-> cookieName, value |-> cookieValue, url |-> {baseUrl}, domain |-> {},
      path |-> "/", secure |-> TRUE]}
  ELSE IF StartsWith(cookieName, SecurePrefix) THEN
    {[name |-> cookieName, value |-> cookieValue, url |-> {baseUrl}, domain |-> {},
      path |-> "/", secure |-> TRUE]}
  ELSE
    {[name |-> cookieName, value |-> cookieValue, url |-> {}, domain |-> {domain},
      path |-> "/", secure |-> isSecure]}

\* .filter(cookie => cookie !== null) over the mapped array
RECURSIVE FilterNonNull(_)
FilterNonNull(mapped) ==
  IF Len(mapped) = 0 THEN <<>>
  ELSE (IF mapped[1] = {} THEN <<>> ELSE <<The(mapped[1])>>) \o FilterNonNull(Tail(mapped))

parseCookies(header, domain, isSecure, baseUrl) ==
  LET pairs == Split(header, ";")
      mapped == [i \in 1..Len(pairs) |-> ParseCookie(pairs[i], domain, isSecure, baseUrl)]
  IN FilterNonNull(mapped)

(***************************************************************************)
(* The download name (route-handler.ts 148-153, part_000 59-61).           *)
(***************************************************************************)

Document == <<"d", "o", "c", "u", "m", "e", "n", "t">>

DotPdf == <<".", "p", "d", "f">>

\* route-handler.ts 148-153: the filename of the Content-Disposition header,
\* `${path.replace(/\//g, '-').replace(/^-/, '') || 'document'}.pdf`
HandlerFilename(p) ==
  LET filename == StripLeading(ReplaceEvery(p, "/", "-"), "-")
  IN (IF filename = <<>> THEN Document ELSE filename) \o DotPdf

\* part_000 59-61: a.download, from the `filename` prop or the current path
ButtonDownloadName(filename, currentPath) ==
  IF filename # {} /\ The(filename) # <<>>
  THEN The(filename) \o DotPdf
  ELSE LET derived == StripLeading(ReplaceEvery(currentPath, "/", "-"), "-")
       IN (IF derived = <<>> THEN Document ELSE derived) \o DotPdf

\* encodeURIComponent (part_000 48), on the characters of PathAlphabet
EncodeChar(ch) ==
  CASE ch = "/" -> <<"%", "2", "F">>
    [] ch = "%" -> <<"%", "2", "5">>
    [] ch = "+" -> <<"%", "2", "B">>
    [] ch = " " -> <<"%", "2", "0">>
    [] OTHER -> <<ch>>

RECURSIVE EncodeURIComponent(_)
EncodeURIComponent(str) ==
  IF Len(str) = 0 THEN <<>> ELSE EncodeChar(str[1]) \o EncodeURIComponent(Tail(str))

\* the character a percent escape stands for, {} when it is no escape known here
Unescape(hi, lo) ==
  CASE hi = "2" /\ lo = "F" -> {"/"}
    [] hi = "2" /\ lo = "5" -> {"%"}
    [] hi = "2" /\ lo = "B" -> {"+"}
    [] hi = "2" /\ lo = "0" -> {" "}
    [] OTHER -> {}

\* searchParams.get('path') (route-handler.ts 69-70): the value as URLSearchParams
\* decodes it, '+' to a space and percent escapes to their characters
RECURSIVE DecodeQueryValue(_)
DecodeQueryValue(str) ==
  IF Len(str) = 0 THEN <<>>
  ELSE IF str[1] = "+" THEN <<" ">> \o DecodeQueryValue(Tail(str))
  ELSE IF str[1] = "%" /\ Len(str) >= 3 /\ Unescape(str[2], str[3]) # {}
       THEN <<The(Unescape(str[2], str[3]))>> \o DecodeQueryValue(SubSeq(str, 4, Len(str)))
  ELSE <<str[1]>> \o DecodeQueryValue(Tail(str))


(***************************************************************************)
(* handler (route-handler.ts 68-166).  Every `await` is one action: the    *)
(* awaited call either resolves or rejects; what runs synchronously after  *)
(* it, up to the next await or return, belongs to the same action.         *)
(***************************************************************************)

NumRequests == 2

Requests == 1..NumRequests

\* the values of the 'path' query parameter: null, '', '/', '/a/b'
PathInputs == { {}, {<<>>}, {<<"/", "a", "/", "b">>} }

\* the values of the cookie header: none, one cookie
CookieInputs == { <<>>, <<"a", "=", "1">> }

\* the configurations a handler can be built with, as far as handler() reads them
Configs ==
  [expandAccordions : BOOLEAN, triggerLazyImages : BOOLEAN,
   beforePdfGeneration : {{}, {"snippet"}}]

Host == "localhost:3000"

BaseUrl == "http://localhost:3000"

Domain == "localhost"

NoResponse == [status |-> 0, body |-> "none", error |-> "", details |-> "", filename |-> <<>>]

\* mutant of Slot: `let browser` hoisted out of handler(), shared by every invocation
SlotShared(r) == 1

\* `let browser` is declared inside handler(): one variable per invocation
Slot(r) == r

\* mutant of PathMissing: `path === null`
PathMissingNullOnly(p) == p = {}

\* `!path`
PathMissing(p) == p = {} \/ The(p) = <<>>

\* NextResponse.json({ error: 'Missing path parameter' }, { status: 400 })
MissingPathResponse ==
  [status |-> 400, body |-> "json", error |-> "Missing path parameter", details |-> "",
   filename |-> <<>>]

\* NextResponse.json({ error: 'Failed to generate PDF', details: String(error) }, { status: 500 })
FailureResponse(cause) ==
  [status |-> 500, body |-> "json", error |-> "Failed to generate PDF", details |-> cause,
   filename |-> <<>>]

\* new NextResponse(Buffer.from(pdfBuffer), { headers: ... filename="${filename}.pdf" })
PdfResponse(p) ==
  [status |-> 200, body |-> "pdf", error |-> "", details |-> "", filename |-> HandlerFilename(p)]

\* the handler's promise rejected: no response at all
Rejected(cause) ==
  [status |-> 0, body |-> "rejected", error |-> "", details |-> cause, filename |-> <<>>]

\* the statement reached once browser.newPage() has resolved (lines 96-105)
AfterNewPage(r) ==
  IF cookieHeader[r] # <<>> /\ Len(parseCookies(cookieHeader[r], Domain, FALSE, BaseUrl)) > 0
  THEN "setCookie" ELSE "setViewport"

\* lines 114-119
AfterExpand == IF config.triggerLazyImages THEN "triggerLazyImages" ELSE "cleanupPageForPdf"

\* lines 109-111
AfterGoto == IF config.expandAccordions THEN "expandAccordions" ELSE AfterExpand

\* lines 122-127
AfterCleanup == IF config.beforePdfGeneration # {} THEN "beforePdfGeneration" ELSE "measure"

\* lines 68-91: read the request, answer 400 or go on to puppeteer.launch()
Receive(r) ==
  /\ pc[r] = "idle"
  /\ \E p \in PathInputs, c \in CookieInputs :
       /\ path' = [path EXCEPT ![r] = p]
       /\ IF PathMissing(p)
          THEN /\ response' = [response EXCEPT ![r] = MissingPathResponse]
               /\ pc' = [pc EXCEPT ![r] = "done"]
               /\ UNCHANGED cookieHeader
          ELSE /\ cookieHeader' = [cookieHeader EXCEPT ![r] = c]
               /\ pc' = [pc EXCEPT ![r] = "launch"]
               /\ UNCHANGED response
  /\ UNCHANGED <<config, browser, sessions, calls, error, notHandlerVars>>

\* lines 156-165, up to the first await of the catch clause
Caught(r, cause) ==
  /\ error' = [error EXCEPT ![r] = {cause}]
  /\ IF browser[Slot(r)] # {}
     THEN /\ pc' = [pc EXCEPT ![r] = "catchClose"]
          /\ UNCHANGED response
     ELSE /\ pc' = [pc EXCEPT ![r] = "done"]
          /\ response' = [response EXCEPT ![r] = FailureResponse(cause)]

\* the identity of the next browser launched for request r: <<r, k>> is its k-th
NewSessionId(r) == <<r, Cardinality({id \in DOMAIN sessions : id[1] = r}) + 1>>

\* a browser as puppeteer.launch() resolves with it
NewSession(r) ==
  [launchedBy |-> r, state |-> "open", closeCalls |-> 0, usedBy |-> {}, closedBy |-> {}]

\* lines 87-91
Launch(r) ==
  /\ pc[r] = "launch"
  /\ calls' = [calls EXCEPT ![r] = Append(@, "launch")]
  /\ \/ /\ sessions' = sessions @@ (NewSessionId(r) :> NewSession(r))
        /\ browser' = [browser EXCEPT ![Slot(r)] = {NewSessionId(r)}]
        /\ pc' = [pc EXCEPT ![r] = "newPage"]
        /\ UNCHANGED <<error, response>>
     \/ /\ Caught(r, "launch")
        /\ UNCHANGED <<sessions, browser>>
  /\ UNCHANGED <<config, path, cookieHeader, notHandlerVars>>

\* an awaited call on the browser or its page: it resolves only on an open session
PageCall(r, step, next) ==
  /\ calls' = [calls EXCEPT ![r] = Append(@, step)]
  /\ LET b == browser[Slot(r)] IN
     /\ sessions' = IF b = {} THEN sessions
                    ELSE [sessions EXCEPT ![The(b)].usedBy = @ \cup {r}]
     /\ \/ /\ b # {}
           /\ sessions[The(b)].state = "open"
           /\ pc' = [pc EXCEPT ![r] = next]
           /\ UNCHANGED <<error, response>>
        \/ Caught(r, step)
  /\ UNCHANGED <<config, path, cookieHeader, browser, notHandlerVars>>

\* line 93
NewPage(r) ==
  /\ pc[r] = "newPage"
  /\ PageCall(r, "newPage", AfterNewPage(r))

\* line 101
SetCookie(r) ==
  /\ pc[r] = "setCookie"
  /\ PageCall(r, "setCookie", "setViewport")

\* line 105
SetViewport(r) ==
  /\ pc[r] = "setViewport"
  /\ PageCall(r, "setViewport", "goto")

\* line 106
Goto(r) ==
  /\ pc[r] = "goto"
  /\ PageCall(r, "goto", AfterGoto)

\* line 110
ExpandAccordions(r) ==
  /\ pc[r] = "expandAccordions"
  /\ PageCall(r, "expandAccordions", AfterExpand)

\* line 115
TriggerLazyImages(r) ==
  /\ pc[r] = "triggerLazyImages"
  /\ PageCall(r, "triggerLazyImages", "cleanupPageForPdf")

\* line 119
CleanupPageForPdf(r) ==
  /\ pc[r] = "cleanupPageForPdf"
  /\ PageCall(r, "cleanupPageForPdf", AfterCleanup)

\* line 123
BeforePdfGeneration(r) ==
  /\ pc[r] = "beforePdfGeneration"
  /\ PageCall(r, "beforePdfGeneration", "measure")

\* lines 127-135
MeasureHeight(r) ==
  /\ pc[r] = "measure"
  /\ PageCall(r, "measure", "pdf")

\* lines 138-144
Pdf(r) ==
  /\ pc[r] = "pdf"
  /\ PageCall(r, "pdf", "close")

\* browser.close() on browser b: resolved, the browser is gone; rejected, nothing
\* is known of it
CloseCall(r, b, outcome) ==
  sessions' = [sessions EXCEPT ![b] =
                 [@ EXCEPT !.closeCalls = @ + 1, !.closedBy = @ \cup {r},
                           !.state = IF outcome = "resolved" THEN "closed"
                                     ELSE IF @ = "closed" THEN "closed" ELSE "unknown"]]

\* lines 146-155
Close(r) ==
  /\ pc[r] = "close"
  /\ calls' = [calls EXCEPT ![r] = Append(@, "close")]
  /\ LET b == browser[Slot(r)] IN
     \/ /\ b # {}
        /\ CloseCall(r, The(b), "resolved")
        /\ pc' = [pc EXCEPT ![r] = "done"]
        /\ response' = [response EXCEPT ![r] = PdfResponse(The(path[r]))]
        /\ UNCHANGED error
     \/ /\ IF b = {} THEN UNCHANGED sessions ELSE CloseCall(r, The(b), "rejected")
        /\ Caught(r, "close")
  /\ UNCHANGED <<config, path, cookieHeader, browser, notHandlerVars>>

\* lines 158-164: the close of the catch clause, then the failure report
CatchClose(r) ==
  /\ pc[r] = "catchClose"
  /\ calls' = [calls EXCEPT ![r] = Append(@, "close")]
  /\ pc' = [pc EXCEPT ![r] = "done"]
  /\ LET b == The(browser[Slot(r)]) IN
     \/ /\ CloseCall(r, b, "resolved")
        /\ response' = [response EXCEPT ![r] = FailureResponse(The(error[r]))]
     \/ /\ CloseCall(r, b, "rejected")
        /\ response' = [response EXCEPT ![r] = Rejected("close")]
  /\ UNCHANGED <<config, path, cookieHeader, browser, error, notHandlerVars>>

\* the handler before any request, built with configuration c
HandlerStart(c) ==
  /\ config = c
  /\ path = [r \in Requests |-> {}]
  /\ cookieHeader = [r \in Requests |-> <<>>]
  /\ pc = [r \in Requests |-> "idle"]
  /\ browser = [r \in Requests |-> {}]
  /\ sessions = << >>
  /\ calls = [r \in Requests |-> <<>>]
  /\ error = [r \in Requests |-> {}]
  /\ response = [r \in Requests |-> NoResponse]

HandlerInit == \E c \in Configs : HandlerStart(c)

HandlerNext ==
  \E r \in Requests :
    \/ Receive(r)
    \/ Launch(r)
    \/ NewPage(r)
    \/ SetCookie(r)
    \/ SetViewport(r)
    \/ Goto(r)
    \/ ExpandAccordions(r)
    \/ TriggerLazyImages(r)
    \/ CleanupPageForPdf(r)
    \/ BeforePdfGeneration(r)
    \/ MeasureHeight(r)
    \/ Pdf(r)
    \/ Close(r)
    \/ CatchClose(r)

\* no request is ever sent to the handler
HandlerIdle ==
  HandlerStart([expandAccordions |-> TRUE, triggerLazyImages |-> TRUE, beforePdfGeneration |-> {}])

(***************************************************************************)
(* parseCookies called on its own, over cookie headers put together from   *)
(* a few pieces.                                                           *)
(***************************************************************************)

MaxPieces == 5

HeaderPieces ==
  { <<"a", "=", "1">>,
    HostPrefix \o <<"a", "=", "1">>,
    SecurePrefix \o <<"a", "=", "1">>,
    <<"_", "_", "H", "o", "s", "t", "a", "=", "1">>,
    <<";">>, <<" ">>, <<"=">>, <<"a">> }

RECURSIVE HeadersUpTo(_)
HeadersUpTo(n) ==
  IF n = 0 THEN {<<>>}
  ELSE LET shorter == HeadersUpTo(n - 1)
       IN shorter \cup {h \o piece : h \in shorter, piece \in HeaderPieces}

CookieInit ==
  /\ cookieIn \in [header : HeadersUpTo(MaxPieces), isSecure : BOOLEAN]
  /\ cookieOut = {}

\* const cookies = parseCookies(cookieHeader, domain, isSecure, baseUrl)
CallParseCookies ==
  /\ cookieOut = {}
  /\ cookieOut' = {parseCookies(cookieIn.header, Domain, cookieIn.isSecure, BaseUrl)}
  /\ UNCHANGED <<cookieIn, notCookieVars>>

CookieIdle ==
  /\ cookieIn = [header |-> <<>>, isSecure |-> FALSE]
  /\ cookieOut = {}

(***************************************************************************)
(* expandAccordions (route-handler.ts 227-248) on a page of disclosure     *)
(* widgets.  A widget nested in another is in the document only while the  *)
(* outer one is open; a click on a trigger toggles its widget.  A trigger  *)
(* selector is either one that names the closed state                      *)
(* (button[data-state="closed"], button[aria-expanded="false"]) or one     *)
(* that names a class of the trigger (.collapsible-button).                *)
(***************************************************************************)

MaxRounds == 5

NumWidgets == 6

MaxRuns == 2

Widgets == 1..NumWidgets

\* accordionTriggerSelectors of defaultOptions and of each preset, by kind
TriggerSelectors ==
  [default |-> {"closed"}, fumadocs |-> {"closed"}, docusaurus |-> {"class", "closed"},
   nextra |-> {"closed"}]

\* the pages: each widget is top-level (parent 0) or nested in the one before
\* it; the triggers carry the class of the class selector or not
Pages == {pg \in [nested : [Widgets -> BOOLEAN], classed : BOOLEAN] : ~pg.nested[1]}

\* the widget that widget w is nested in, 0 for none
Parent(pg, w) == IF pg.nested[w] THEN w - 1 ELSE 0

\* widget w is in the document
RECURSIVE InDocument(_, _, _)
InDocument(w, pg, open) ==
  \/ Parent(pg, w) = 0
  \/ open[Parent(pg, w)] /\ InDocument(Parent(pg, w), pg, open)

\* document.querySelectorAll(sel): the widgets whose trigger matches
QuerySelectorAll(sels, pg, open) ==
  {w \in Widgets :
     /\ InDocument(w, pg, open)
     /\ \/ "closed" \in sels /\ ~open[w]
        \/ "class" \in sels /\ pg.classed}

\* closedButtons.forEach(btn => btn.click())
ClickEach(matched, open) == [w \in Widgets |-> IF w \in matched THEN ~open[w] ELSE open[w]]

\* mutant of LoopCondition: one round too many
LoopConditionOffByOne(i) == i <= MaxRounds

\* `i < 5` of the for loop
LoopCondition(i) == i < MaxRounds

\* lines 236-242: one page.evaluate, then `if (expanded === 0) break`
ExpandRound ==
  /\ accPc = "evaluate"
  /\ LET closedButtons == QuerySelectorAll(accSelectors, accPage, accOpen)
         expanded == Cardinality(closedButtons)
     IN /\ accOpen' = ClickEach(closedButtons, accOpen)
        /\ accRounds' = Append(accRounds, [run |-> accRun, before |-> accOpen,
                                           after |-> accOpen', expanded |-> expanded])
        /\ accPc' = IF expanded = 0 THEN "settle" ELSE "delay"
  /\ UNCHANGED <<accPage, accSelectors, accRun, accI, notAccVars>>

\* line 243 and the loop header: the 400 ms wait, i++, the loop test
RoundDelay ==
  /\ accPc = "delay"
  /\ accI' = accI + 1
  /\ accPc' = IF LoopCondition(accI + 1) THEN "evaluate" ELSE "settle"
  /\ UNCHANGED <<accPage, accOpen, accSelectors, accRun, accRounds, notAccVars>>

\* line 247: the 500 ms wait, then expandAccordions returns
FinalDelay ==
  /\ accPc = "settle"
  /\ accPc' = "returned"
  /\ UNCHANGED <<accPage, accOpen, accSelectors, accRun, accI, accRounds, notAccVars>>

\* expandAccordions is invoked again on the same page with the same selectors
InvokeAgain ==
  /\ accPc = "returned"
  /\ accRun < MaxRuns
  /\ accRun' = accRun + 1
  /\ accI' = 0
  /\ accPc' = IF LoopCondition(0) THEN "evaluate" ELSE "settle"
  /\ UNCHANGED <<accPage, accOpen, accSelectors, accRounds, notAccVars>>

\* expandAccordions has just been invoked on page pg, widgets open as in `open`
AccStart(pg, open, sels) ==
  /\ accPage = pg
  /\ accOpen = open
  /\ accSelectors = sels
  /\ accRun = 1
  /\ accI = 0
  /\ accPc = IF LoopCondition(0) THEN "evaluate" ELSE "settle"
  /\ accRounds = <<>>

AccInit ==
  \E pg \in Pages, open \in [Widgets -> BOOLEAN], name \in DOMAIN TriggerSelectors :
    AccStart(pg, open, TriggerSelectors[name])

AccIdle ==
  /\ accPage = [nested |-> [w \in Widgets |-> FALSE], classed |-> FALSE]
  /\ accOpen = [w \in Widgets |-> TRUE]
  /\ accSelectors = TriggerSelectors.default
  /\ accRun = 0
  /\ accI = 0
  /\ accPc = "idle"
  /\ accRounds = <<>>

(***************************************************************************)
(* The download name: ExportButton asks the handler for the page it is on  *)
(* (part_000 40-67), the handler names the PDF in Content-Disposition      *)
(* (route-handler.ts 69-73, 148-155), the button names the download.       *)
(***************************************************************************)

MaxPathLen == 3

PathAlphabet == {"/", "a", "-", "%", "+", "2", "F"}

RECURSIVE StringsUpTo(_)
StringsUpTo(n) ==
  IF n = 0 THEN {<<>>}
  ELSE LET shorter == StringsUpTo(n - 1)
       IN shorter \cup {str \o <<ch>> : str \in shorter, ch \in PathAlphabet}

\* the values of the `filename` prop: not given, '', 'report'
FilenameProps == { {}, {<<>>}, {<<"r", "e", "p", "o", "r", "t">>} }

FnInit ==
  /\ fnPath \in StringsUpTo(MaxPathLen)
  /\ fnProp \in FilenameProps
  /\ fnQuery = {}
  /\ fnResponse = {}
  /\ fnDownload = {}

\* part_000 47-48: fetch(`${apiPath}?path=${encodeURIComponent(currentPath)}`)
SendRequest ==
  /\ fnQuery = {}
  /\ fnQuery' = {EncodeURIComponent(fnPath)}
  /\ UNCHANGED <<fnPath, fnProp, fnResponse, fnDownload, notFnVars>>

\* route-handler.ts 69-73 and 148-155, when the pipeline succeeds
RespondWithPdf ==
  /\ fnQuery # {}
  /\ fnResponse = {}
  /\ LET p == {DecodeQueryValue(The(fnQuery))}
     IN fnResponse' = IF PathMissing(p)
                      THEN {[ok |-> FALSE, path |-> The(p), filename |-> <<>>]}
                      ELSE {[ok |-> TRUE, path |-> The(p), filename |-> HandlerFilename(The(p))]}
  /\ UNCHANGED <<fnPath, fnProp, fnQuery, fnDownload, notFnVars>>

\* part_000 50-63: the response is ok, the blob is offered for download
OfferDownload ==
  /\ fnResponse # {}
  /\ The(fnResponse).ok
  /\ fnDownload = {}
  /\ fnDownload' = {ButtonDownloadName(fnProp, fnPath)}
  /\ UNCHANGED <<fnPath, fnProp, fnQuery, fnResponse, notFnVars>>

FnIdle ==
  /\ fnPath = <<>>
  /\ fnProp = {}
  /\ fnQuery = {}
  /\ fnResponse = {}
  /\ fnDownload = {}

(***************************************************************************)
(* cleanupPageForPdf (route-handler.ts 300-430) on a document.  Elements   *)
(* are numbered in document order; parent 0 is document.body.  An element  *)
(* is of one kind, which says what of the function's queries it matches    *)
(* and what its stylesheet computes for it.  The clone of an element keeps *)
(* the element's number.                                                   *)
(***************************************************************************)

NumElements == 4

Elements == 1..NumElements

ElementKinds ==
  { "plain",       \* matches nothing
    "anchor",      \* an <a>
    "grid",        \* class holds grid-cols-2
    "container",   \* class holds @container
    "removable",   \* matches one of config.removeSelectors
    "fixed",       \* computed position fixed
    "sticky",      \* computed position sticky
    "clipped",     \* computed overflow hidden
    "disclosure" } \* carries data-state, its stylesheet clips it

\* the ancestors of element e, document.body (0) left out
RECURSIVE Ancestors(_, _)
Ancestors(parent, e) ==
  IF parent[e] = 0 THEN {} ELSE {parent[e]} \cup Ancestors(parent, parent[e])

\* parent functions under which the numbering is the document order
Trees ==
  {parent \in [Elements -> 0..(NumElements - 1)] :
     /\ parent[1] = 0
     /\ \A e \in Elements \ {1} :
          /\ parent[e] < e
          /\ parent[e] = 0 \/ parent[e] \in ({e - 1} \cup Ancestors(parent, e - 1))}

\* content: the element document.querySelector(contentSelector) returns, 0 for null
DomPages == [parent : Trees, kind : [Elements -> ElementKinds], content : 0..NumElements]

\* what the page's stylesheet computes
StylePosition(kind) ==
  CASE kind = "fixed" -> "fixed" [] kind = "sticky" -> "sticky" [] OTHER -> "static"

StyleOverflow(kind) == IF kind \in {"clipped", "disclosure"} THEN "hidden" ELSE "visible"

\* el.querySelectorAll('*') within the elements `live`: the descendants of el
Descendants(pg, live, el) == {e \in live : el \in Ancestors(pg.parent, e)}

\* el.remove() for every el of `els`: they and their descendants leave the document
RemoveAll(pg, live, els) ==
  {e \in live : e \notin els /\ Ancestors(pg.parent, e) \cap els = {}}

\* lines 340-345: the navigation blocks the heuristic removes
WithoutNavigationBlocks(pg, live, clone) ==
  LET grids == {e \in Descendants(pg, live, clone) : pg.kind[e] = "grid"}
      live1 == RemoveAll(pg, live, grids)
      containers ==
        {e \in Descendants(pg, live1, clone) :
           /\ pg.kind[e] = "container"
           /\ \/ \E g \in Descendants(pg, live1, e) : pg.kind[g] = "grid"
              \/ Cardinality({a \in Descendants(pg, live1, e) : pg.kind[a] = "anchor"}) = 2}
  IN RemoveAll(pg, live1, containers)

\* lines 348-350
WithoutRemoveSelectors(pg, live, clone) ==
  RemoveAll(pg, live, {e \in Descendants(pg, live, clone) : pg.kind[e] = "removable"})

\* the elements the loops of lines 353-376 restyle:
\* contentClone.querySelectorAll('*') and the data-state ones among them
Restyled(pg, live, clone) == Descendants(pg, live, clone)

\* lines 306-421, the function evaluated in the page
CleanupInPage ==
  /\ domPc = "loaded"
  /\ domPc' = "cleaned"
  /\ IF domPage.content = 0
     THEN UNCHANGED <<domLive, domBody, domPosition, domOverflow>>
     ELSE LET clone == domPage.content
              cloned == {clone} \cup Descendants(domPage, domLive, clone)
              kept == WithoutRemoveSelectors(domPage,
                        WithoutNavigationBlocks(domPage, cloned, clone), clone)
              restyled == Restyled(domPage, kept, clone)
          IN /\ domBody' = {clone}
             /\ domLive' = kept
             /\ domPosition' =
                  [e \in Elements |->
                     IF e \in restyled /\ domPage.kind[e] = "disclosure" THEN "relative"
                     ELSE IF e \in restyled /\ domPosition[e] \in {"fixed", "sticky"} THEN "static"
                     ELSE domPosition[e]]
             /\ domOverflow' =
                  [e \in Elements |->
                     IF e \in restyled /\ domPage.kind[e] = "disclosure" THEN "visible"
                     ELSE IF e \in restyled /\ domOverflow[e] = "hidden" THEN "visible"
                     ELSE domOverflow[e]]
  /\ UNCHANGED <<domPage, notDomVars>>

\* the document as page.goto() leaves it
DomStart(pg) ==
  /\ domPage = pg
  /\ domLive = Elements
  /\ domBody = {e \in Elements : pg.parent[e] = 0}
  /\ domPosition = [e \in Elements |-> StylePosition(pg.kind[e])]
  /\ domOverflow = [e \in Elements |-> StyleOverflow(pg.kind[e])]
  /\ domPc = "loaded"

DomInit == \E pg \in DomPages : DomStart(pg)

DomIdle ==
  /\ DomStart([parent |-> [e \in Elements |-> 0], kind |-> [e \in Elements |-> "plain"],
               content |-> 0])

(***************************************************************************)
(* triggerLazyImages (route-handler.ts 253-295) on the images of a page.   *)
(* naturalHeight is 0 or positive (1).                                     *)
(***************************************************************************)

NumImages == 2

Images == 1..NumImages

ImageStates == [complete : BOOLEAN, naturalHeight : {0, 1}, loading : {"lazy", "eager"}]

\* mutant of OnError: a failed image rejects its promise
OnErrorRejects == "reject"

\* line 285, `img.onerror = resolve`: what the error event does to the promise
OnError == "resolve"

\* line 284, `img.onload = resolve`
OnLoad == "resolve"

\* line 282: the image needs no reload
AlreadyLoaded(img) == img.complete /\ img.naturalHeight > 0

\* lines 259-273: the page is scrolled to its end and back to the top
ScrollThrough ==
  /\ lzPc = "scroll"
  /\ lzPc' = "reload"
  /\ UNCHANGED <<lzLoaded, lzImages, lzPending, lzSignal, notLzVars>>

\* lines 276-291 up to the await: loading hints removed, every image not yet
\* loaded is given handlers and its src is reassigned; Promise.all of no
\* pending promise resolves at once
StartReload ==
  /\ lzPc = "reload"
  /\ LET waited == {i \in Images : ~AlreadyLoaded(lzImages[i])}
     IN /\ lzPending' = waited
        /\ lzImages' = [i \in Images |->
                          IF i \in waited
                          THEN [lzImages[i] EXCEPT !.loading = "eager", !.complete = FALSE]
                          ELSE [lzImages[i] EXCEPT !.loading = "eager"]]
        /\ lzPc' = IF waited = {} THEN "delay" ELSE "waiting"
  /\ UNCHANGED <<lzLoaded, lzSignal, notLzVars>>

\* a pending image fires load or error; Promise.all settles when the last
\* pending promise resolves, or as soon as one rejects
ImageEvent(i, event) ==
  /\ lzPc = "waiting"
  /\ i \in lzPending
  /\ lzSignal' = [lzSignal EXCEPT ![i] = event]
  /\ lzImages' = [lzImages EXCEPT ![i] =
                    [@ EXCEPT !.complete = TRUE,
                              !.naturalHeight = IF event = "load" THEN 1 ELSE 0]]
  /\ lzPending' = lzPending \ {i}
  /\ lzPc' = IF (IF event = "load" THEN OnLoad ELSE OnError) = "reject" THEN "failed"
             ELSE IF lzPending \ {i} = {} THEN "delay"
             ELSE "waiting"
  /\ UNCHANGED <<lzLoaded, notLzVars>>

\* line 294: the 1000 ms wait, then triggerLazyImages returns and the handler
\* goes on to cleanupPageForPdf
FinalWait ==
  /\ lzPc = "delay"
  /\ lzPc' = "returned"
  /\ UNCHANGED <<lzLoaded, lzImages, lzPending, lzSignal, notLzVars>>

\* triggerLazyImages has just been called on a page holding the images imgs
LzStart(imgs) ==
  /\ lzLoaded = imgs
  /\ lzImages = imgs
  /\ lzPending = {}
  /\ lzSignal = [i \in Images |-> "none"]
  /\ lzPc = "scroll"

LzInit == \E imgs \in [Images -> ImageStates] : LzStart(imgs)

LzIdle ==
  /\ lzLoaded = [i \in Images |-> [complete |-> TRUE, naturalHeight |-> 1, loading |-> "eager"]]
  /\ lzImages = lzLoaded
  /\ lzPending = {}
  /\ lzSignal = [i \in Images |-> "none"]
  /\ lzPc = "idle"

(***************************************************************************)
(* createPdfExportHandler (route-handler.ts 6-66): how the closure's       *)
(* config is put together, and how handler() reads it.  An options object  *)
(* is a function from the keys it owns to their values; every value is     *)
(* nullable, {} being undefined.                                           *)
(***************************************************************************)

NumHandlers == 2

NumServed == 2

MaxSupplied == 2

Handlers == 1..NumHandlers

Served == 1..NumServed

\* {}
EmptyObject == [k \in {} |-> {}]

\* the object spread { ...a, ...b }: the own keys of both, those of b winning
Spread(a, b) == b @@ a

PresetNames == {"fumadocs", "docusaurus", "nextra"}

\* part_001 134-160
presets ==
  [fumadocs |->
     [contentSelector |-> {"article"},
      removeSelectors |-> {<<"#nd-sidebar", "#nd-toc", "nav", ".print-hidden">>},
      accordionTriggerSelectors |->
        {<<"button[data-state=closed]", "[data-state=closed] > button",
           "[data-state=closed][role=button]">>},
      accordionContentSelectors |->
        {<<"[data-radix-accordion-content]", "[data-radix-collapsible-content]">>}],
   docusaurus |->
     [contentSelector |-> {"article"},
      removeSelectors |->
        {<<".theme-doc-sidebar-container", ".table-of-contents", "nav", ".print-hidden">>},
      accordionTriggerSelectors |-> {<<".collapsible-button", "button[aria-expanded=false]">>},
      accordionContentSelectors |-> {<<".collapsible-content">>}],
   nextra |->
     [contentSelector |-> {"article"},
      removeSelectors |->
        {<<"nav", "aside", ".nextra-sidebar", ".nextra-toc", ".print-hidden">>},
      accordionTriggerSelectors |-> {<<"button[data-state=closed]">>},
      accordionContentSelectors |-> {<<"[data-radix-collapsible-content]">>}]]

\* route-handler.ts 6-23
defaultOptions ==
  [contentSelector |-> {"article"},
   removeSelectors |-> {<<"#nd-sidebar", "#nd-toc", "nav", ".print-hidden">>},
   expandAccordions |-> {TRUE},
   accordionTriggerSelectors |->
     {<<"button[data-state=closed]", "[data-state=closed] > button",
        "[data-state=closed][role=button]">>},
   accordionContentSelectors |->
     {<<"[data-radix-accordion-content]", "[data-radix-collapsible-content]">>},
   triggerLazyImages |-> {TRUE},
   pageWidth |-> {850},
   margins |-> {[top |-> {30}, right |-> {30}, bottom |-> {30}, left |-> {30}]},
   timeout |-> {30000}]

\* the keys of PdfExportOptions (part_001 6-76)
OptionKeys ==
  {"contentSelector", "removeSelectors", "expandAccordions", "accordionTriggerSelectors",
   "accordionContentSelectors", "triggerLazyImages", "pageWidth", "margins", "timeout",
   "puppeteerOptions", "beforePdfGeneration"}

Sides == {"top", "right", "bottom", "left"}

\* the margins objects a caller writes: any of the sides, each 5 or undefined
MarginObjects == UNION {[given -> {{}, {5}}] : given \in SUBSET Sides}

\* the values a caller gives a key: undefined, or one that is not the default
OptionValues(key) ==
  CASE key = "contentSelector" -> {{}, {".my-content"}}
    [] key = "removeSelectors" -> {{}, {<<".sidebar", ".toc">>}}
    [] key = "expandAccordions" -> {{}, {FALSE}}
    [] key = "accordionTriggerSelectors" -> {{}, {<<"summary">>}}
    [] key = "accordionContentSelectors" -> {{}, {<<"details > div">>}}
    [] key = "triggerLazyImages" -> {{}, {FALSE}}
    [] key = "pageWidth" -> {{}, {1200}}
    [] key = "margins" -> {{}} \cup {{m} : m \in MarginObjects}
    [] key = "timeout" -> {{}, {5000}}
    [] key = "puppeteerOptions" -> {{}, {"launchOptions"}}
    [] key = "beforePdfGeneration" -> {{}, {"snippet"}}

\* the options objects that own at most n keys
RECURSIVE OptionObjects(_)
OptionObjects(n) ==
  IF n = 0 THEN {EmptyObject}
  ELSE LET fewer == OptionObjects(n - 1)
       IN fewer \cup
          UNION { UNION { {(key :> value) @@ o : value \in OptionValues(key)} :
                          key \in OptionKeys \ DOMAIN o } : o \in fewer }

\* what createPdfExportHandler can be given: nothing, a preset name, an object
Arguments ==
  {[preset |-> {}, object |-> {}]}
    \cup {[preset |-> {name}, object |-> {}] : name \in PresetNames}
    \cup {[preset |-> {}, object |-> {o}] : o \in OptionObjects(MaxSupplied)}

\* lines 49-60: resolvedOptions
ResolveOptions(options) ==
  IF options.preset # {}
  THEN LET preset == presets[The(options.preset)]
       IN Spread(preset,
                 [removeSelectors |-> preset.removeSelectors,
                  accordionTriggerSelectors |-> preset.accordionTriggerSelectors,
                  accordionContentSelectors |-> preset.accordionContentSelectors])
  ELSE IF options.object = {} THEN EmptyObject
  ELSE The(options.object)

\* what `...o.margins` spreads: nothing when o.margins is undefined
MarginsOf(o) ==
  IF "margins" \in DOMAIN o /\ o["margins"] # {} THEN The(o["margins"]) ELSE EmptyObject

\* mutant of ResolveConfig: the margins are not merged side by side
ResolveConfigShallow(defaults, resolvedOptions) == Spread(defaults, resolvedOptions)

\* lines 62-66: config
ResolveConfig(defaults, resolvedOptions) ==
  Spread(Spread(defaults, resolvedOptions),
         [margins |-> {Spread(The(defaults.margins), MarginsOf(resolvedOptions))}])

\* mutant of DefaultsAfterBuild: Object.assign(defaultOptions, resolvedOptions)
DefaultsAfterAssign(defaults, resolvedOptions) == Spread(defaults, resolvedOptions)

\* lines 62-66 build a new object: defaultOptions is read, never written
DefaultsAfterBuild(defaults, resolvedOptions) == defaults

\* lines 47-67: createPdfExportHandler(options) returns the closure of handler h
CreateHandler(h, options) ==
  /\ cfgConfig[h] = {}
  /\ LET resolvedOptions == ResolveOptions(options)
     IN /\ cfgArgument' = [cfgArgument EXCEPT ![h] = {options}]
        /\ cfgResolved' = [cfgResolved EXCEPT ![h] = {resolvedOptions}]
        /\ cfgConfig' = [cfgConfig EXCEPT ![h] = {ResolveConfig(cfgDefaults, resolvedOptions)}]
        /\ cfgDefaults' = DefaultsAfterBuild(cfgDefaults, resolvedOptions)
  /\ UNCHANGED <<cfgHandler, cfgPc, cfgSeen, notCfgVars>>

\* what a read of the closure of handler h finds
Closure(h) == [config |-> The(cfgConfig[h]), resolvedOptions |-> The(cfgResolved[h])]

\* lines 68-86: a request reaches handler h, which reads the request only
ServeReceive(r, h) ==
  /\ cfgPc[r] = "idle"
  /\ cfgConfig[h] # {}
  /\ cfgHandler' = [cfgHandler EXCEPT ![r] = h]
  /\ cfgPc' = [cfgPc EXCEPT ![r] = "launch"]
  /\ UNCHANGED <<cfgDefaults, cfgArgument, cfgResolved, cfgConfig, cfgSeen, notCfgVars>>

\* one stretch of handler() that reads the closure and ends in an await, which
\* resolves (next) or rejects (the catch clause, then the failure report)
ServeStretch(r, next) ==
  /\ cfgSeen' = [cfgSeen EXCEPT ![r] = @ \cup {Closure(cfgHandler[r])}]
  /\ \/ cfgPc' = [cfgPc EXCEPT ![r] = next]
     \/ cfgPc' = [cfgPc EXCEPT ![r] = "failed"]
  /\ UNCHANGED <<cfgDefaults, cfgArgument, cfgResolved, cfgConfig, cfgHandler, notCfgVars>>

\* lines 87-91: config.puppeteerOptions is spread into the launch options
ServeLaunch(r) ==
  /\ cfgPc[r] = "launch"
  /\ ServeStretch(r, "page")

\* lines 93-119: pageWidth, timeout, the feature flags and the selectors are read
ServePage(r) ==
  /\ cfgPc[r] = "page"
  /\ ServeStretch(r, "render")

\* lines 122-155: resolvedOptions.beforePdfGeneration, contentSelector,
\* pageWidth and margins are read, the PDF is returned
ServeRender(r) ==
  /\ cfgPc[r] = "render"
  /\ ServeStretch(r, "answered")

\* the handlers that a running server is built with
ServedArguments ==
  {[preset |-> {}, object |-> {}],
   [preset |-> {"docusaurus"}, object |-> {}],
   [preset |-> {"nextra"}, object |-> {}],
   [preset |-> {}, object |->
      {[removeSelectors |-> {<<".sidebar", ".toc">>}, beforePdfGeneration |-> {"snippet"}]}],
   [preset |-> {}, object |-> {[margins |-> {[top |-> {5}]}, timeout |-> {5000}]}]}

\* the module is loaded, createPdfExportHandler has not been called
CfgIdle ==
  /\ cfgDefaults = defaultOptions
  /\ cfgArgument = [h \in Handlers |-> {}]
  /\ cfgResolved = [h \in Handlers |-> {}]
  /\ cfgConfig = [h \in Handlers |-> {}]
  /\ cfgHandler = [r \in Served |-> 0]
  /\ cfgPc = [r \in Served |-> "idle"]
  /\ cfgSeen = [r \in Served |-> {}]

(***************************************************************************)
(* The height measurement and the render (route-handler.ts 126-144), on    *)
(* two renderings of a page that are measured side by side.  Heights are   *)
(* whole pixels.                                                           *)
(***************************************************************************)

MaxHeight == 4

ContentPadding == 40

PdfBottomPadding == 60

Heights == 0..MaxHeight

Renderings == {1, 2}

\* config.pageWidth: the default, one a caller sets
PageWidths == {850, 1200}

\* a page when it is measured: the bounding height of the element the content
\* selector returns, {} when it returns null, and document.body.scrollHeight
MeasuredPages == [content : {{}} \cup {{h} : h \in Heights}, scrollHeight : Heights]

\* mutant of MeasuredHeight: no fallback, a missing element counts as height 0
MeasuredHeightNoFallback(content, scrollHeight) ==
  IF content # {} THEN The(content) + ContentPadding ELSE ContentPadding

\* lines 128-134, the function evaluated in the page
MeasuredHeight(content, scrollHeight) ==
  IF content # {} THEN The(content) + ContentPadding ELSE scrollHeight

\* mutant of PdfOptions: the height without its bottom padding
PdfOptionsNoPadding(pageWidth, contentHeight) ==
  [width |-> pageWidth, height |-> contentHeight, printBackground |-> TRUE,
   preferCSSPageSize |-> FALSE]

\* lines 138-144, the argument of page.pdf(); margin is config.margins
PdfOptions(pageWidth, contentHeight) ==
  [width |-> pageWidth, height |-> contentHeight + PdfBottomPadding, printBackground |-> TRUE,
   preferCSSPageSize |-> FALSE]

\* lines 127-135: contentHeight = await page.evaluate(...)
MeasureContentHeight(i) ==
  /\ msPc[i] = "measure"
  /\ \/ /\ msHeight' = [msHeight EXCEPT ![i] =
                          {MeasuredHeight(msPage[i].content, msPage[i].scrollHeight)}]
        /\ msPc' = [msPc EXCEPT ![i] = "pdf"]
     \/ /\ msPc' = [msPc EXCEPT ![i] = "failed"]
        /\ UNCHANGED msHeight
  /\ UNCHANGED <<msPage, msWidth, msPdf, notMsVars>>

\* lines 138-144: pdfBuffer = await page.pdf(...)
RenderPdf(i) ==
  /\ msPc[i] = "pdf"
  /\ \/ /\ msPdf' = [msPdf EXCEPT ![i] = {PdfOptions(msWidth, The(msHeight[i]))}]
        /\ msPc' = [msPc EXCEPT ![i] = "rendered"]
     \/ /\ msPc' = [msPc EXCEPT ![i] = "failed"]
        /\ UNCHANGED msPdf
  /\ UNCHANGED <<msPage, msWidth, msHeight, notMsVars>>

\* handler() is about to measure the renderings pages[1] and pages[2]
MsStart(pages, pageWidth) ==
  /\ msPage = pages
  /\ msWidth = pageWidth
  /\ msHeight = [i \in Renderings |-> {}]
  /\ msPdf = [i \in Renderings |-> {}]
  /\ msPc = [i \in Renderings |-> "measure"]

MsInit == \E pages \in [Renderings -> MeasuredPages], pageWidth \in PageWidths :
            MsStart(pages, pageWidth)

MsIdle ==
  /\ msPage = [i \in Renderings |-> [content |-> {}, scrollHeight |-> 0]]
  /\ msWidth = 850
  /\ msHeight = [i \in Renderings |-> {}]
  /\ msPdf = [i \in Renderings |-> {}]
  /\ msPc = [i \in Renderings |-> "idle"]

(***************************************************************************)
(* The end of the pipeline on one page (route-handler.ts 119-144):         *)
(* cleanupPageForPdf, then the height measurement and the render, on the   *)
(* document that cleanupPageForPdf left.                                   *)
(***************************************************************************)

\* lines 127-135, once cleanupPageForPdf has returned
MeasureSanitized ==
  /\ domPc = "cleaned"
  /\ MeasureContentHeight(1)

\* lines 138-144
RenderSanitized ==
  /\ domPc = "cleaned"
  /\ RenderPdf(1)

\* the page is loaded and is about to be cleaned, measured and rendered; its
\* content element, if the selector finds one, has a bounding height
TailStart(pg, measured, pageWidth) ==
  /\ DomStart(pg)
  /\ (measured.content # {}) <=> (pg.content # 0)
  /\ msPage = [i \in Renderings |-> IF i = 1 THEN measured ELSE [content |-> {}, scrollHeight |-> 0]]
  /\ msWidth = pageWidth
  /\ msHeight = [i \in Renderings |-> {}]
  /\ msPdf = [i \in Renderings |-> {}]
  /\ msPc = [i \in Renderings |-> IF i = 1 THEN "measure" ELSE "idle"]

\* the pages in which the content selector matches no element
NoContentInit ==
  \E pg \in DomPages, scrollHeight \in {0, MaxHeight} :
    /\ pg.content = 0
    /\ TailStart(pg, [content |-> {}, scrollHeight |-> scrollHeight], 850)

(***************************************************************************)
(* ExportButton and FumadocsExportButton (part_000 27-127).  React renders *)
(* again after a click handler has set state and before the next event, so *)
(* handleExport always sees the current isLoading.  A callback prop that   *)
(* is not given behaves as one that returns.                               *)
(***************************************************************************)

MaxClicks == 2

\* what a callback prop does when it is called
CallbackBehaviours == {"returns", "throws"}

\* styled: the button is a FumadocsExportButton, which wraps the callbacks
ButtonProps ==
  [disabled : BOOLEAN, styled : BOOLEAN, onExportStart : CallbackBehaviours,
   onExportSuccess : CallbackBehaviours, onExportError : CallbackBehaviours]

\* what fetch() can come to: it rejects; the PDF; a failure report with
\* details (the handler's 500); one without (the handler's 400); a response
\* that is not ok and whose body is not JSON
FetchOutcomes == {"network", "pdf", "details", "nodetails", "notjson"}

\* the details string of the failure report the server sent
ServerDetails == "Error: Navigation timeout"

\* the export started by the current click, before any call it makes
NewExport == [starts |-> 0, fetches |-> 0, successes |-> 0, errors |-> <<>>]

\* the last export started, with field `call` counted once more
Counted(call) ==
  [btnExports EXCEPT ![Len(btnExports)] =
     [@ EXCEPT ![call] = @ + 1]]

\* lines 72-74: setIsLoading(false), and handleExport is over
Finally ==
  /\ btnLoading' = FALSE
  /\ btnPc' = "idle"

\* lines 68-74: the catch clause calls onExportError(err), then finally runs;
\* an exception of the callback leaves handleExport once finally has run
Catch(exports, message) ==
  /\ btnExports' = [exports EXCEPT ![Len(exports)] =
                      [@ EXCEPT !.errors = Append(@, message)]]
  /\ btnOuter' = IF btnProps.styled THEN FALSE ELSE btnOuter
  /\ btnUncaught' = (btnUncaught \/ btnProps.onExportError = "throws")
  /\ Finally

\* lines 40-48: a click on the button.  Up to fetch() the handler runs without
\* a break; onExportStart is called outside the try block
Click ==
  /\ btnClicks < MaxClicks
  /\ btnClicks' = btnClicks + 1
  /\ IF btnLoading \/ btnProps.disabled
     THEN UNCHANGED <<btnLoading, btnOuter, btnPc, btnExports, btnUncaught>>
     ELSE /\ btnLoading' = TRUE
          /\ btnOuter' = IF btnProps.styled THEN TRUE ELSE btnOuter
          /\ IF btnProps.onExportStart = "throws"
             THEN /\ btnExports' = Append(btnExports, [NewExport EXCEPT !.starts = 1])
                  /\ btnUncaught' = TRUE
                  /\ UNCHANGED btnPc
             ELSE /\ btnExports' = Append(btnExports,
                                          [NewExport EXCEPT !.starts = 1, !.fetches = 1])
                  /\ btnPc' = "fetch"
                  /\ UNCHANGED btnUncaught
  /\ UNCHANGED <<btnProps, btnResponse, notBtnVars>>

\* line 48: fetch() settles; lines 50-55 up to the next await
FetchSettles(outcome) ==
  /\ btnPc = "fetch"
  /\ btnResponse' = outcome
  /\ IF outcome = "network"
     THEN Catch(btnExports, "Failed to fetch")
     ELSE /\ btnPc' = IF outcome = "pdf" THEN "blob" ELSE "json"
          /\ UNCHANGED <<btnLoading, btnOuter, btnExports, btnUncaught>>
  /\ UNCHANGED <<btnProps, btnClicks, notBtnVars>>

\* lines 51-52: response.json() settles, then
\* throw new Error(error.details || 'Failed to generate PDF')
JsonSettles ==
  /\ btnPc = "json"
  /\ Catch(btnExports,
           CASE btnResponse = "details" -> ServerDetails
             [] btnResponse = "nodetails" -> "Failed to generate PDF"
             [] OTHER -> "Unexpected token < in JSON")
  /\ UNCHANGED <<btnProps, btnResponse, btnClicks, notBtnVars>>

\* lines 55-67: response.blob() settles, the download is offered and
\* onExportSuccess is called, inside the try block
BlobSettles(resolved) ==
  /\ btnPc = "blob"
  /\ IF ~resolved
     THEN Catch(btnExports, "Failed to read the body")
     ELSE IF btnProps.onExportSuccess = "throws"
     THEN Catch(Counted("successes"), "onExportSuccess threw")
     ELSE /\ btnExports' = Counted("successes")
          /\ btnOuter' = IF btnProps.styled THEN FALSE ELSE btnOuter
          /\ UNCHANGED btnUncaught
          /\ Finally
  /\ UNCHANGED <<btnProps, btnResponse, btnClicks, notBtnVars>>

\* the button as first rendered with props `props`
BtnStart(props) ==
  /\ btnProps = props
  /\ btnLoading = FALSE
  /\ btnOuter = FALSE
  /\ btnPc = "idle"
  /\ btnResponse = "none"
  /\ btnExports = <<>>
  /\ btnClicks = 0
  /\ btnUncaught = FALSE

BtnInit == \E props \in ButtonProps : BtnStart(props)

\* no button is rendered
BtnIdle ==
  /\ btnProps = [disabled |-> TRUE, styled |-> FALSE, onExportStart |-> "returns",
                 onExportSuccess |-> "returns", onExportError |-> "returns"]
  /\ btnLoading = FALSE
  /\ btnOuter = FALSE
  /\ btnPc = "unmounted"
  /\ btnResponse = "none"
  /\ btnExports = <<>>
  /\ btnClicks = 0
  /\ btnUncaught = FALSE

(***************************************************************************)
(* The specifications.                                                     *)
(***************************************************************************)

Init == HandlerInit /\ CookieIdle /\ AccIdle /\ FnIdle /\ DomIdle /\ LzIdle /\ CfgIdle /\ MsIdle
          /\ BtnIdle

Next == HandlerNext

Spec == Init /\ [][Next]_vars

InitCookie == CookieInit /\ HandlerIdle /\ AccIdle /\ FnIdle /\ DomIdle /\ LzIdle /\ CfgIdle /\ MsIdle
  /\ BtnIdle

NextCookie == CallParseCookies

SpecCookie == InitCookie /\ [][NextCookie]_vars

InitAccordion == AccInit /\ HandlerIdle /\ CookieIdle /\ FnIdle /\ DomIdle /\ LzIdle /\ CfgIdle /\ MsIdle
  /\ BtnIdle

NextAccordion == ExpandRound \/ RoundDelay \/ FinalDelay \/ InvokeAgain

SpecAccordion == InitAccordion /\ [][NextAccordion]_vars

InitFilename == FnInit /\ HandlerIdle /\ CookieIdle /\ AccIdle /\ DomIdle /\ LzIdle /\ CfgIdle /\ MsIdle
  /\ BtnIdle

NextFilename == SendRequest \/ RespondWithPdf \/ OfferDownload

SpecFilename == InitFilename /\ [][NextFilename]_vars

InitDom == DomInit /\ HandlerIdle /\ CookieIdle /\ AccIdle /\ FnIdle /\ LzIdle /\ CfgIdle /\ MsIdle
  /\ BtnIdle

NextDom == CleanupInPage

SpecDom == InitDom /\ [][NextDom]_vars

InitLazy == LzInit /\ HandlerIdle /\ CookieIdle /\ AccIdle /\ FnIdle /\ DomIdle /\ CfgIdle /\ MsIdle
  /\ BtnIdle

NextLazy ==
  \/ ScrollThrough
  \/ StartReload
  \/ \E i \in Images, event \in {"load", "error"} : ImageEvent(i, event)
  \/ FinalWait

SpecLazy == InitLazy /\ [][NextLazy]_vars

InitConfig ==
  CfgIdle /\ HandlerIdle /\ CookieIdle /\ AccIdle /\ FnIdle /\ DomIdle /\ LzIdle /\ MsIdle
  /\ BtnIdle

\* one handler is built, with any argument
NextConfig == \E options \in Arguments : CreateHandler(1, options)

SpecConfig == InitConfig /\ [][NextConfig]_vars

InitServe ==
  CfgIdle /\ HandlerIdle /\ CookieIdle /\ AccIdle /\ FnIdle /\ DomIdle /\ LzIdle /\ MsIdle
  /\ BtnIdle

\* handlers are built and serve requests, one after another or at the same time
NextServe ==
  \/ \E h \in Handlers, options \in ServedArguments : CreateHandler(h, options)
  \/ \E r \in Served, h \in Handlers : ServeReceive(r, h)
  \/ \E r \in Served : ServeLaunch(r) \/ ServePage(r) \/ ServeRender(r)

SpecServe == InitServe /\ [][NextServe]_vars

InitMeasure ==
  MsInit /\ HandlerIdle /\ CookieIdle /\ AccIdle /\ FnIdle /\ DomIdle /\ LzIdle /\ CfgIdle
  /\ BtnIdle

NextMeasure == \E i \in Renderings : MeasureContentHeight(i) \/ RenderPdf(i)

SpecMeasure == InitMeasure /\ [][NextMeasure]_vars

InitNoContent ==
  NoContentInit /\ HandlerIdle /\ CookieIdle /\ AccIdle /\ FnIdle /\ LzIdle /\ CfgIdle
  /\ BtnIdle

NextNoContent == CleanupInPage \/ MeasureSanitized \/ RenderSanitized

SpecNoContent == InitNoContent /\ [][NextNoContent]_vars

InitButton ==
  BtnInit /\ HandlerIdle /\ CookieIdle /\ AccIdle /\ FnIdle /\ DomIdle /\ LzIdle /\ CfgIdle
  /\ MsIdle

NextButton ==
  \/ Click
  \/ \E outcome \in FetchOutcomes : FetchSettles(outcome)
  \/ JsonSettles
  \/ \E resolved \in BOOLEAN : BlobSettles(resolved)

SpecButton == InitButton /\ [][NextButton]_vars

(***************************************************************************)
(* Properties of the handler.                                              *)
(***************************************************************************)

\* how many times request r has made the awaited call `step`
CountCalls(r, step) == Cardinality({i \in 1..Len(calls[r]) : calls[r][i] = step})

\* the browsers launched for request r
SessionsOf(r) == {id \in DOMAIN sessions : sessions[id].launchedBy = r}

\* the steps of the pipeline, in the order of section 4.6
PipelineOrder ==
  <<"launch", "newPage", "setCookie", "goto", "expandAccordions", "triggerLazyImages",
    "cleanupPageForPdf", "beforePdfGeneration", "measure", "pdf", "close">>

Rank(step) == CHOOSE i \in 1..Len(PipelineOrder) : PipelineOrder[i] = step

\* the calls of request r that are steps of the pipeline, in the order made
RECURSIVE PipelineCalls(_)
PipelineCalls(cs) ==
  IF Len(cs) = 0 THEN <<>>
  ELSE (IF \E i \in 1..Len(PipelineOrder) : PipelineOrder[i] = cs[1] THEN <<cs[1]>> ELSE <<>>)
       \o PipelineCalls(Tail(cs))

\* C1: a request in which some step threw ends with the failure report (status
\* 500, 'Failed to generate PDF', details = the stringified cause), never a PDF,
\* and browser.close() was invoked exactly once if the launch had succeeded and
\* not at all if the launch itself failed.
C1_FailureReportAndOneClose ==
  \A r \in Requests :
    (pc[r] = "done" /\ error[r] # {}) =>
      /\ response[r] = FailureResponse(The(error[r]))
      /\ CountCalls(r, "close") = IF SessionsOf(r) # {} THEN 1 ELSE 0

\* C2: within one request the pipeline steps run in the order of section 4.6,
\* each at most once, the optional ones only when their condition holds, and a
\* request answered with the PDF has run every unconditional one.
C2_StepsInOrderAtMostOnce ==
  \A r \in Requests :
    LET steps == PipelineCalls(calls[r]) IN
    /\ \A i \in 1..Len(steps), j \in 1..Len(steps) : i < j => Rank(steps[i]) < Rank(steps[j])
    /\ CountCalls(r, "setCookie") > 0 => cookieHeader[r] # <<>>
    /\ CountCalls(r, "expandAccordions") > 0 => config.expandAccordions
    /\ CountCalls(r, "triggerLazyImages") > 0 => config.triggerLazyImages
    /\ CountCalls(r, "beforePdfGeneration") > 0 => config.beforePdfGeneration # {}
    /\ response[r].body = "pdf" =>
         \A step \in {"launch", "newPage", "goto", "cleanupPageForPdf", "measure", "pdf", "close"} :
           CountCalls(r, step) = 1

\* C3: under any interleaving of the requests, each request launches at most
\* one browser, a browser is used and closed only by the request that launched
\* it, and when a request's handler has finished, close() has been invoked on
\* the browser it launched; when it finished by returning a response, that
\* browser is closed.
C3_SessionPerRequest ==
  /\ \A r \in Requests : Cardinality(SessionsOf(r)) <= 1
  /\ \A id \in DOMAIN sessions :
       /\ sessions[id].usedBy \subseteq {sessions[id].launchedBy}
       /\ sessions[id].closedBy \subseteq {sessions[id].launchedBy}
  /\ \A r \in Requests :
       pc[r] = "done" =>
         \A id \in SessionsOf(r) :
           /\ sessions[id].closeCalls >= 1
           /\ response[r].body # "rejected" => sessions[id].state = "closed"

\* C3 witness: one request has returned its PDF and another its failure report,
\* each having launched and closed its own browser; the failing one failed at
\* page.goto and closed its browser in the catch clause.
C3_Witness ==
  \E r1 \in Requests, r2 \in Requests :
    /\ r1 # r2
    /\ response[r1].status = 200
    /\ response[r2].status = 500
    /\ SessionsOf(r1) # {} /\ SessionsOf(r2) # {}
    /\ \A id \in SessionsOf(r1) \cup SessionsOf(r2) : sessions[id].state = "closed"
    /\ calls[r2][Len(calls[r2]) - 1] = "goto"

\* C4: a request without a path (null or empty) is answered at once with status
\* 400 'Missing path parameter', launching no browser and making no call; a
\* request with a path is never answered 400; and a 400 answer is never the
\* status-500 failure report of a generation failure.
C4_MissingPath ==
  \A r \in Requests :
    pc[r] # "idle" =>
      /\ path[r] \in {{}, {<<>>}} =>
           /\ pc[r] = "done"
           /\ response[r].status = 400
           /\ response[r].error = "Missing path parameter"
           /\ SessionsOf(r) = {}
           /\ calls[r] = <<>>
           /\ error[r] = {}
      /\ path[r] \notin {{}, {<<>>}} => response[r].status # 400
      /\ response[r].status = 500 => (path[r] \notin {{}, {<<>>}} /\ error[r] # {})

\* C4 witness: one request answered 400 and another, with a path, carried through.
C4_Witness ==
  \E r1 \in Requests, r2 \in Requests :
    /\ path[r1] = {<<>>} /\ response[r1].status = 400
    /\ path[r2] = {<<"/", "a", "/", "b">>} /\ response[r2].status = 200

(***************************************************************************)
(* Properties of parseCookies.                                             *)
(***************************************************************************)

\* a pair of the header yields a record: it holds '=' and a name before it
ValidPair(pair) ==
  \E e \in 1..Len(pair) :
    /\ pair[e] = "="
    /\ \A j \in 1..(e - 1) : pair[j] # "="
    /\ \E j \in 1..(e - 1) : pair[j] # " "

\* the name of a valid pair: what stands before its first '=', without the
\* spaces around it
PairName(pair) ==
  LET e == CHOOSE i \in 1..Len(pair) : pair[i] = "=" /\ \A j \in 1..(i - 1) : pair[j] # "="
      inked == {j \in 1..(e - 1) : pair[j] # " "}
      lo == CHOOSE j \in inked : \A k \in inked : j <= k
      hi == CHOOSE j \in inked : \A k \in inked : k <= j
  IN SubSeq(pair, lo, hi)

\* the scope of a record follows the prefix table, read top to bottom
FollowsPrefixTable(rec, isSecure) ==
  IF StartsWith(rec.name, HostPrefix)
  THEN rec.url = {BaseUrl} /\ rec.secure = TRUE /\ rec.domain = {}
  ELSE IF StartsWith(rec.name, SecurePrefix)
  THEN rec.url = {BaseUrl} /\ rec.secure = TRUE
  ELSE rec.domain = {Domain} /\ rec.secure = isSecure

\* C5: parseCookies returns, in header order, exactly one record per pair that
\* holds '=' and a non-empty name and none for the other pairs; each record has
\* path '/' and the scope the prefix table gives its name; and the call returns
\* for every header.
C5_ParseCookies ==
  /\ cookieOut = {} =>
       Len(parseCookies(cookieIn.header, Domain, cookieIn.isSecure, BaseUrl)) >= 0
  /\ cookieOut # {} =>
       LET out == The(cookieOut)
           pairs == Split(cookieIn.header, ";")
           valid == {i \in 1..Len(pairs) : ValidPair(pairs[i])}
           \* the position in the header of the pair behind the k-th record
           Origin(k) == CHOOSE i \in valid : Cardinality({j \in valid : j < i}) = k - 1
       IN /\ Len(out) = Cardinality(valid)
          /\ \A k \in 1..Len(out) :
               /\ out[k].name = PairName(pairs[Origin(k)])
               /\ out[k].path = "/"
               /\ FollowsPrefixTable(out[k], cookieIn.isSecure)

\* C5 witness: over a plain connection, a header with a pair that has no name
\* returned two records in header order, a __Secure- one and an ordinary one.
C5_Witness ==
  /\ cookieOut # {}
  /\ ~cookieIn.isSecure
  /\ Len(Split(cookieIn.header, ";")) = 3
  /\ Len(The(cookieOut)) = 2
  /\ StartsWith(The(cookieOut)[1].name, SecurePrefix)
  /\ The(cookieOut)[1].secure
  /\ The(cookieOut)[2].name = <<"a">>
  /\ ~The(cookieOut)[2].secure

(***************************************************************************)
(* Properties of expandAccordions.                                         *)
(***************************************************************************)

\* the rounds of the k-th invocation
RoundsOfRun(k) == SelectSeq(accRounds, LAMBDA round : round.run = k)

\* the k-th invocation has left its loop
LoopLeft(k) == accRun > k \/ (accRun = k /\ accPc \in {"settle", "returned"})

\* the widgets a round clicked: those whose state it changed
Clicked(round) == {w \in Widgets : round.before[w] # round.after[w]}

\* C6: expandAccordions is idempotent: invoked again on the same page with the
\* same trigger selectors, it never clicks a disclosure that is already open,
\* and changes nothing once no disclosure of the document is closed.
C6_SecondRunClicksNoOpenDisclosure ==
  \A n \in 1..Len(accRounds) :
    accRounds[n].run >= 2 =>
      /\ \A w \in Clicked(accRounds[n]) : ~accRounds[n].before[w]
      /\ (\A w \in Widgets : InDocument(w, accPage, accRounds[n].before)
                               => accRounds[n].before[w])
           => accRounds[n].after = accRounds[n].before

\* C7: an invocation of expandAccordions makes at most 5 rounds; each round
\* clicks every element that matches the trigger selectors when it runs, and
\* reports their number; every round but the last of an invocation found a
\* match, and the last one found none unless it was the fifth.
C7_AtMostFiveRounds ==
  /\ \A n \in 1..Len(accRounds) :
       /\ Clicked(accRounds[n]) = QuerySelectorAll(accSelectors, accPage, accRounds[n].before)
       /\ accRounds[n].expanded = Cardinality(Clicked(accRounds[n]))
  /\ \A k \in 1..accRun :
       LET rounds == RoundsOfRun(k) IN
       /\ Len(rounds) <= 5
       /\ \A n \in 1..(Len(rounds) - 1) : rounds[n].expanded > 0
       /\ LoopLeft(k) =>
            /\ Len(rounds) >= 1
            /\ rounds[Len(rounds)].expanded = 0 \/ Len(rounds) = 5

\* C7 witness: with selectors that name the closed state, an invocation on
\* disclosures nested six deep has returned after five rounds, the fifth of
\* which still found a match.
C7_Witness ==
  /\ accSelectors = {"closed"}
  /\ accRun = 1
  /\ accPc = "returned"
  /\ Len(accRounds) = 5
  /\ accRounds[5].expanded > 0
  /\ \E w \in Widgets : ~accOpen[w]

(***************************************************************************)
(* Properties of the download name.                                        *)
(***************************************************************************)

\* the name derived from a path, said without the two replace calls: drop the
\* leading separator, write '-' for every '/', 'document' if nothing is left
ExpectedName(p) ==
  LET skip == IF Len(p) > 0 /\ p[1] \in {"/", "-"} THEN 1 ELSE 0
      body == [i \in 1..(Len(p) - skip) |-> IF p[i + skip] = "/" THEN "-" ELSE p[i + skip]]
  IN (IF Len(body) = 0 THEN Document ELSE body) \o DotPdf

\* C8: the handler's filename is the request path with every '/' replaced by
\* '-' and the leading separator stripped, 'document' if that is empty, plus
\* '.pdf'; '/guides/setup' gives 'guides-setup.pdf' and '/' gives
\* 'document.pdf'; the handler receives the path the button sent; without an
\* explicit filename the button's download name is the handler's name, and with
\* one (a non-empty `filename` prop) it is that filename plus '.pdf'.
C8_DownloadName ==
  /\ HandlerFilename(<<"/", "g", "u", "i", "d", "e", "s", "/", "s", "e", "t", "u", "p">>)
       = <<"g", "u", "i", "d", "e", "s", "-", "s", "e", "t", "u", "p", ".", "p", "d", "f">>
  /\ HandlerFilename(<<"/">>) = <<"d", "o", "c", "u", "m", "e", "n", "t", ".", "p", "d", "f">>
  /\ fnResponse # {} =>
       /\ The(fnResponse).path = fnPath
       /\ The(fnResponse).ok => The(fnResponse).filename = ExpectedName(fnPath)
  /\ fnDownload # {} =>
       IF fnProp \in {{}, {<<>>}}
       THEN The(fnDownload) = The(fnResponse).filename
       ELSE The(fnDownload) = The(fnProp) \o DotPdf

\* C8 witness: a path with two separators and an escaped character was
\* exported with no filename prop, and both names are the derived one.
C8_Witness ==
  /\ fnPath = <<"/", "%", "/">>
  /\ fnProp = {}
  /\ fnDownload = {<<"%", "-", ".", "p", "d", "f">>}
  /\ The(fnResponse).filename = The(fnDownload)

(***************************************************************************)
(* Properties of cleanupPageForPdf.                                        *)
(***************************************************************************)

\* the descendants the content element had in the document as loaded
OriginalDescendants == Descendants(domPage, Elements, domPage.content)

\* C9: whenever the content selector matches, after cleanupPageForPdf the body
\* holds exactly one root, the clone of the content subtree; its descendants
\* number those of the original subtree less the elements matching the removal
\* selectors; and no element of it, the root included, has computed position
\* fixed or sticky or computed overflow hidden.
C9_SanitizedSubtree ==
  (domPc = "cleaned" /\ domPage.content # 0) =>
    /\ domBody = {domPage.content}
    /\ Cardinality(Descendants(domPage, domLive, domPage.content))
         = Cardinality(OriginalDescendants)
           - Cardinality({e \in OriginalDescendants : domPage.kind[e] = "removable"})
    /\ \A e \in {domPage.content} \cup Descendants(domPage, domLive, domPage.content) :
         /\ domPosition[e] \notin {"fixed", "sticky"}
         /\ domOverflow[e] # "hidden"

(***************************************************************************)
(* Properties of triggerLazyImages.                                        *)
(***************************************************************************)

\* the images that were loaded (complete, with a height) when the call began
LoadedAtCall == {i \in Images : lzLoaded[i].complete /\ lzLoaded[i].naturalHeight > 0}

\* C10: in the forced reload, an image's error event completes its wait just
\* as its load event does: whatever each image not yet loaded fires, the call
\* never raises; it is waiting exactly while some such image has not fired;
\* images already loaded are never waited on; and once all have fired the call
\* goes on to its final delay and returns.
C10_ErrorCountsAsCompletion ==
  /\ lzPc # "failed"
  /\ lzPc = "waiting" <=> lzPending # {}
  /\ lzPending \cap LoadedAtCall = {}
  /\ \A i \in LoadedAtCall : lzSignal[i] = "none"
  /\ lzPc \in {"delay", "returned"} =>
       \A i \in Images \ LoadedAtCall : lzSignal[i] \in {"load", "error"}

\* C10 witness: the call has returned on a page with an image that was already
\* loaded and never awaited and a broken one that fired error.
C10_Witness ==
  /\ lzPc = "returned"
  /\ \E i \in Images : i \in LoadedAtCall /\ lzSignal[i] = "none"
  /\ \E i \in Images : lzSignal[i] = "error" /\ lzImages[i].naturalHeight = 0

(***************************************************************************)
(* Properties of the configuration.                                        *)
(***************************************************************************)

\* the defaults the documentation of PdfExportOptions states (part_001, the
\* @default tags), margins apart
DocumentedDefault ==
  [contentSelector |-> {"article"},
   removeSelectors |-> {<<"#nd-sidebar", "#nd-toc", "nav", ".print-hidden">>},
   expandAccordions |-> {TRUE},
   accordionTriggerSelectors |->
     {<<"button[data-state=closed]", "[data-state=closed] > button",
        "[data-state=closed][role=button]">>},
   accordionContentSelectors |->
     {<<"[data-radix-accordion-content]", "[data-radix-collapsible-content]">>},
   triggerLazyImages |-> {TRUE},
   pageWidth |-> {850},
   timeout |-> {30000}]

\* the fields an argument supplies: those of the preset it names, or its own
Supplied(argument) ==
  IF argument.preset # {} THEN presets[The(argument.preset)]
  ELSE IF argument.object = {} THEN EmptyObject
  ELSE The(argument.object)

\* the sides of the margins an argument supplies
SuppliedMargins(argument) ==
  LET supplied == Supplied(argument)
  IN IF "margins" \in DOMAIN supplied /\ supplied["margins"] # {}
     THEN The(supplied["margins"]) ELSE EmptyObject

\* C11: the configuration of a handler holds, for every key the argument owns
\* (a key given as undefined included), the argument's value, and for every
\* other documented key its documented default ('article', 30000, 850, both
\* flags true, the default selector lists); its margins hold for every side the
\* side the argument gives, or 30; it holds no other key; and a preset name
\* resolves to the configuration that an options object holding the preset's
\* fields resolves to.
C11_ConfigResolution ==
  \A h \in Handlers :
    cfgConfig[h] # {} =>
      LET argument == The(cfgArgument[h])
          supplied == Supplied(argument)
          conf == The(cfgConfig[h])
      IN /\ DOMAIN conf = DOMAIN DocumentedDefault \cup {"margins"} \cup DOMAIN supplied
         /\ \A key \in DOMAIN supplied \ {"margins"} : conf[key] = supplied[key]
         /\ \A key \in DOMAIN DocumentedDefault \ DOMAIN supplied :
              conf[key] = DocumentedDefault[key]
         /\ conf["margins"] # {}
         /\ DOMAIN The(conf["margins"]) = Sides
         /\ \A side \in Sides :
              The(conf["margins"])[side] =
                IF side \in DOMAIN SuppliedMargins(argument)
                THEN SuppliedMargins(argument)[side] ELSE {30}
         /\ argument.preset # {} =>
              conf = ResolveConfig(defaultOptions,
                       ResolveOptions([preset |-> {},
                                       object |-> {presets[The(argument.preset)]}]))

\* C11 witness: a handler built with { pageWidth: 1200, margins: { top: 5 } }
\* has that width, that top margin, and the defaults for the other sides and
\* for the timeout.
C11_Witness ==
  \E h \in Handlers :
    /\ cfgConfig[h] # {}
    /\ The(cfgArgument[h]).object = {[pageWidth |-> {1200}, margins |-> {[top |-> {5}]}]}
    /\ The(cfgConfig[h])["pageWidth"] = {1200}
    /\ The(The(cfgConfig[h])["margins"])["top"] = {5}
    /\ The(The(cfgConfig[h])["margins"])["left"] = {30}
    /\ The(cfgConfig[h])["timeout"] = {30000}

(***************************************************************************)
(* Properties of the height measurement.                                   *)
(***************************************************************************)

\* rendering 2 shows the content of rendering 1 at least as tall, the content
\* selector resolving in both or in neither
Grown ==
  \/ /\ msPage[1].content # {} /\ msPage[2].content # {}
     /\ The(msPage[1].content) <= The(msPage[2].content)
  \/ /\ msPage[1].content = {} /\ msPage[2].content = {}
     /\ msPage[1].scrollHeight <= msPage[2].scrollHeight

\* C12: the measured height is the content element's bounding height plus 40
\* when the content selector resolves, the document's scroll height otherwise;
\* page.pdf() is given the configured page width and the measured height plus
\* 60; and of two renderings of which the second holds the content at least as
\* tall as the first, the second never measures less.
C12_MeasuredHeight ==
  /\ \A i \in Renderings :
       msHeight[i] # {} =>
         The(msHeight[i]) = IF msPage[i].content # {} THEN The(msPage[i].content) + 40
                            ELSE msPage[i].scrollHeight
  /\ \A i \in Renderings :
       msPdf[i] # {} =>
         /\ The(msPdf[i]).width = msWidth
         /\ The(msPdf[i]).height = The(msHeight[i]) + 60
  /\ (Grown /\ msHeight[1] # {} /\ msHeight[2] # {}) => The(msHeight[1]) <= The(msHeight[2])

\* C12 witness: a content element of height 2 and the same content at twice the
\* height have both been measured and rendered, on a page 1200 wide.
C12_Witness ==
  /\ msPage[1].content = {2} /\ msPage[2].content = {4}
  /\ msWidth = 1200
  /\ msHeight[1] = {42} /\ msHeight[2] = {44}
  /\ msPdf[1] # {} /\ msPdf[2] # {}
  /\ The(msPdf[2]).height = 104

(***************************************************************************)
(* Properties of the handlers' configurations while requests are served.   *)
(***************************************************************************)

\* a step leaves defaultOptions and the closure of every handler built as they are
ClosuresKept ==
  /\ cfgDefaults' = cfgDefaults
  /\ \A h \in Handlers :
       cfgConfig[h] # {} =>
         /\ cfgConfig'[h] = cfgConfig[h]
         /\ cfgResolved'[h] = cfgResolved[h]

\* every read of the closure that request r has made found what the closure of
\* its handler holds now
SameAtEveryRead(r) == cfgSeen[r] # {} => cfgSeen[r] = {Closure(cfgHandler[r])}

\* C13: no step of any request, and no building of another handler, changes
\* the module-level defaultOptions or the configuration of a handler already
\* built; every read a request makes of its handler's configuration, at
\* whatever point of the pipeline and however the requests interleave, finds
\* the same configuration, the one resolved when the handler was built; and the
\* default options are those of the module as loaded.
C13_ConfigFixed ==
  /\ [][ClosuresKept]_vars
  /\ [](\A r \in Served : SameAtEveryRead(r))
  /\ [](cfgDefaults = defaultOptions)
  /\ [](\A h \in Handlers :
          cfgConfig[h] # {} =>
            The(cfgConfig[h]) = ResolveConfig(defaultOptions, ResolveOptions(The(cfgArgument[h]))))

\* C13 witness: two handlers with different configurations have each served a
\* request, one answered with the PDF and one with the failure report, and
\* each request read its own handler's configuration.
C13_Witness ==
  \E r1 \in Served, r2 \in Served :
    /\ cfgPc[r1] = "answered" /\ cfgPc[r2] = "failed"
    /\ cfgHandler[r1] # 0 /\ cfgHandler[r2] # 0 /\ cfgHandler[r1] # cfgHandler[r2]
    /\ cfgConfig[cfgHandler[r1]] # cfgConfig[cfgHandler[r2]]
    /\ cfgSeen[r1] = {Closure(cfgHandler[r1])}
    /\ cfgSeen[r2] = {Closure(cfgHandler[r2])}

(***************************************************************************)
(* Properties of the pipeline when the content selector matches nothing.   *)
(***************************************************************************)

\* the document is as page.goto() left it: every element in place, the body's
\* children and every computed style as loaded
DocumentAsLoaded ==
  /\ domLive = Elements
  /\ domBody = {e \in Elements : domPage.parent[e] = 0}
  /\ domPosition = [e \in Elements |-> StylePosition(domPage.kind[e])]
  /\ domOverflow = [e \in Elements |-> StyleOverflow(domPage.kind[e])]

\* C14: when the content selector matches no element, cleanupPageForPdf
\* returns with the document exactly as loaded (the children of the body, the
\* styles, every element); the height then measured is the document's scroll
\* height; and the PDF is rendered with that height plus 60.
C14_NoContentNoOp ==
  domPage.content = 0 =>
    /\ domPc = "cleaned" => DocumentAsLoaded
    /\ msHeight[1] # {} => domPc = "cleaned" /\ The(msHeight[1]) = msPage[1].scrollHeight
    /\ msPdf[1] # {} => The(msPdf[1]).height = msPage[1].scrollHeight + 60
    /\ msPc[1] = "failed" => domPc = "cleaned"

\* C14 witness: a page holding fixed and removable elements but no content
\* element has been cleaned, measured at its scroll height and rendered.
C14_Witness ==
  /\ domPage.content = 0
  /\ \E e \in Elements : domPage.kind[e] = "fixed"
  /\ \E e \in Elements : domPage.kind[e] = "removable"
  /\ domPc = "cleaned"
  /\ DocumentAsLoaded
  /\ msPage[1].scrollHeight = MaxHeight
  /\ msHeight[1] = {MaxHeight}
  /\ msPc[1] = "rendered"
  /\ msPdf[1] # {}

(***************************************************************************)
(* Properties of ExportButton.                                             *)
(***************************************************************************)

\* export number n is over: a later one has started, or none is in flight
ExportOver(n) == n < Len(btnExports) \/ btnPc = "idle"

\* the message the error of a failed export is to carry: the server's details,
\* or 'Failed to generate PDF' when the server sent none
ExpectedMessage == IF btnResponse = "details" THEN ServerDetails ELSE "Failed to generate PDF"

\* a click on a loading or disabled button changes nothing but the click count
IgnoredClick ==
  (btnClicks' # btnClicks /\ (btnLoading \/ btnProps.disabled)) =>
    UNCHANGED <<btnLoading, btnOuter, btnPc, btnExports, btnResponse>>

\* C15: a click while the button is loading or disabled starts no request and
\* fires no callback; every export started fires onExportStart once and issues
\* exactly one fetch; once over it has fired exactly one of onExportSuccess and
\* onExportError, the error carrying the server's details or 'Failed to
\* generate PDF'; and whenever no export is in flight the loading flag is false.
C15_ButtonStateMachine ==
  /\ [][IgnoredClick]_vars
  /\ [](\A n \in 1..Len(btnExports) :
          /\ btnExports[n].starts = 1
          /\ btnExports[n].fetches = 1
          /\ ExportOver(n) => btnExports[n].successes + Len(btnExports[n].errors) = 1)
  /\ [](btnPc = "idle" /\ btnExports # <<>> =>
          \A i \in 1..Len(btnExports[Len(btnExports)].errors) :
            btnExports[Len(btnExports)].errors[i] = ExpectedMessage)
  /\ [](btnPc = "idle" => ~btnLoading)

====
